---- MODULE Spec2Model ----
(***************************************************************************)
(* HierPlace: hierarchical placement of PCB modules (src/HierPlace.py).    *)
(*                                                                         *)
(* The board is a sequence of modules; each has a footprint rectangle, a   *)
(* hierarchical path, a lock flag and a selection flag.  Run groups the    *)
(* (selected) unlocked modules by hierarchy level, packs every group,      *)
(* regroups the packed groups one level up and repeats until at most one   *)
(* group is left.                                                          *)
(*                                                                         *)
(* Strings that are only ever split on '/' and joined with '/' are held as *)
(* the list str.split('/') returns (never empty; "" is <<"">>).            *)
(* Screen coordinates: y grows downwards, so the top edge is the smaller y.*)
(***************************************************************************)
EXTENDS Integers, Sequences, FiniteSets, TLC

VARIABLES
    modules,         \* the board: sequence of [fw, fh, path, locked, selected]
    pos,             \* pos[i] = <<x, y>> origin of module i's footprint rectangle
    pos0,            \* positions when Run was entered
    pc,              \* position inside Run: "start", "loop", "pack", "done", "error"
    groups,          \* the dict of Run, in insertion order: sequence of [key, grp]
    gi,              \* index of the group being packed by the for loop of Run
    order,           \* pack: sorted(group, key=-area)
    mi,              \* pack: number of elements of order already processed
    packed_modules,  \* pack: the members added so far
    placement_pts,   \* pack: the list of potential placement points
    passes           \* number of executions of the body of Run's while loop

vars == <<modules, pos, pos0, pc, groups, gi, order, mi, packed_modules,
          placement_pts, passes>>

-----------------------------------------------------------------------------
(* Program constants *)

MODULE_SPACING == 350000

GROUP_SPACING == 5 * MODULE_SPACING

(* Bounds of the model *)

\* largest number of modules on the board
MaxModules == 3

\* footprint widths and heights range over 0..MaxDim steps of DimStep
MaxDim == 2

\* pitch of the diagonal the footprint origins lie on when Run is entered
MaxCoord == 1

-----------------------------------------------------------------------------
(* Generic helpers *)

Abs(n) == IF n < 0 THEN -n ELSE n

Min2(a, b) == IF a <= b THEN a ELSE b

Max2(a, b) == IF a >= b THEN a ELSE b

Range(s) == {s[i] : i \in 1..Len(s)}

\* list.remove(x): drops the first element equal to x
RECURSIVE ListRemove(_, _)
ListRemove(s, x) ==
    IF s = <<>> THEN <<>>
    ELSE IF Head(s) = x THEN Tail(s)
    ELSE <<Head(s)>> \o ListRemove(Tail(s), x)

-----------------------------------------------------------------------------
(* EDA_RECT and wxPoint as the program uses them.  A rectangle is           *)
(* [x, y, w, h] with w, h >= 0; a point is <<x, y>>.                        *)

Rect(x, y, w, h) == [x |-> x, y |-> y, w |-> w, h |-> h]

\* EDA_RECT.Inflate(d) on one axis: a deflation never eats more than the size
InflateAxis(p, s, d) ==
    IF s < -2 * d THEN <<p + (s \div 2), 0>> ELSE <<p - d, s + 2 * d>>

Inflate(r, d) ==
    LET ax == InflateAxis(r.x, r.w, d)
        ay == InflateAxis(r.y, r.h, d)
    IN  Rect(ax[1], ay[1], ax[2], ay[2])

\* EDA_RECT.Intersects: the common area may be empty-sized (edges count)
Intersects(a, b) ==
    /\ Max2(a.x, b.x) <= Min2(a.x + a.w, b.x + b.w)
    /\ Max2(a.y, b.y) <= Min2(a.y + a.h, b.y + b.h)

\* EDA_RECT.Merge: the smallest rectangle holding both
Merge(a, b) ==
    LET x  == Min2(a.x, b.x)
        y  == Min2(a.y, b.y)
        ex == Max2(a.x + a.w, b.x + b.w)
        ey == Max2(a.y + a.h, b.y + b.h)
    IN  Rect(x, y, ex - x, ey - y)

\* EDA_RECT.GetCenter
GetCenter(r) == <<r.x + (r.w \div 2), r.y + (r.h \div 2)>>

-----------------------------------------------------------------------------
(* Placeables: a Module is [leaf |-> TRUE, id, mem |-> <<>>], a ModuleGroup *)
(* is [leaf |-> FALSE, id |-> 0, mem |-> <<its members>>].                  *)

Leaf(i) == [leaf |-> TRUE, id |-> i, mem |-> <<>>]

ModuleGroup(ms) == [leaf |-> FALSE, id |-> 0, mem |-> ms]

\* the modules underneath a placeable
RECURSIVE Leaves(_)
Leaves(p) ==
    IF p.leaf THEN {p.id}
    ELSE UNION {Leaves(p.mem[k]) : k \in 1..Len(p.mem)}

\* str[:-1] on the split list, joined and split again: '' comes back as ['']
DropLast(parts) ==
    IF Len(parts) <= 1 THEN <<"">> ELSE SubSeq(parts, 1, Len(parts) - 1)

\* Module.hier_level / ModuleGroup.hier_level
RECURSIVE hier_level(_)

\* variant: a module's level is its whole path
hier_level_whole(p) ==
    IF p.leaf THEN modules[p.id].path
    ELSE CHOOSE r \in {DropLast(h) : h \in {hier_level(p.mem[1])}} : TRUE

hier_level(p) ==
    IF p.leaf THEN DropLast(modules[p.id].path)
    ELSE CHOOSE r \in {DropLast(h) : h \in {hier_level(p.mem[1])}} : TRUE

\* Module.locked / ModuleGroup.locked
locked(p) == IF p.leaf THEN modules[p.id].locked ELSE FALSE

\* Module.bbox / ModuleGroup.bbox, with the modules at positions ps
RECURSIVE bbox(_, _)

\* "for module in self: bbox.Merge(module.bbox)"
RECURSIVE MergeAll(_, _, _, _)
MergeAll(ms, k, acc, ps) ==
    IF k > Len(ms) THEN acc
    ELSE CHOOSE r \in {MergeAll(ms, k + 1, a, ps) :
                         a \in {Merge(acc, b) : b \in {bbox(ms[k], ps)}}} : TRUE

\* EDA_RECT().Move(center): the empty rectangle at the centre of bb
CenterRect(bb) == Rect(GetCenter(bb)[1], GetCenter(bb)[2], 0, 0)

\* ModuleGroup.bbox for the members ms
GroupBox(ms, ps) ==
    CHOOSE r \in {Inflate(m, GROUP_SPACING) :
                    m \in {MergeAll(ms, 1, c, ps) :
                             c \in {CenterRect(b) : b \in {bbox(ms[1], ps)}}}} : TRUE

bbox(p, ps) ==
    IF p.leaf
    THEN Inflate(Rect(ps[p.id][1], ps[p.id][2], modules[p.id].fw, modules[p.id].fh),
                 MODULE_SPACING)
    ELSE GroupBox(p.mem, ps)

TopLeft(bb) == <<bb.x, bb.y>>

BottomRight(bb) == <<bb.x + bb.w, bb.y + bb.h>>

BottomLeft(bb) == <<bb.x, bb.y + bb.h>>

tl_corner(p, ps) == CHOOSE c \in {TopLeft(bb) : bb \in {bbox(p, ps)}} : TRUE

br_corner(p, ps) == CHOOSE c \in {BottomRight(bb) : bb \in {bbox(p, ps)}} : TRUE

bl_corner(p, ps) == CHOOSE c \in {BottomLeft(bb) : bb \in {bbox(p, ps)}} : TRUE

\* variant: the bounding box is not shrunk before the test
touches_unshrunk(a, b, ps) ==
    \E bb1 \in {bbox(a, ps)}, bb2 \in {bbox(b, ps)} : Intersects(bb1, bb2)

\* Module.touches
touches(a, b, ps) ==
    \E bb1 \in {Inflate(ba, -1) : ba \in {bbox(a, ps)}}, bb2 \in {bbox(b, ps)} :
        Intersects(bb1, bb2)

\* Module.move / ModuleGroup.move: the positions after the move
RECURSIVE move(_, _, _, _)

\* "for m in self: m.move(dx, dy)"
RECURSIVE MoveAll(_, _, _, _, _)

\* variant: only the first member of a group is moved
MoveFirst(ms, k, dx, dy, ps) ==
    IF ms = <<>> THEN ps ELSE move(ms[1], dx, dy, ps)

MoveAll(ms, k, dx, dy, ps) ==
    IF k > Len(ms) THEN ps
    ELSE CHOOSE r \in {MoveAll(ms, k + 1, dx, dy, q) :
                         q \in {move(ms[k], dx, dy, ps)}} : TRUE

move(p, dx, dy, ps) ==
    IF locked(p) THEN ps
    ELSE IF p.leaf
         THEN [ps EXCEPT ![p.id] = <<ps[p.id][1] + dx, ps[p.id][2] + dy>>]
         ELSE MoveAll(p.mem, 1, dx, dy, ps)

\* Module.set_bl_position
set_bl_position(p, pt, ps) ==
    IF locked(p) THEN ps
    ELSE CHOOSE r \in {move(p, pt[1] - bl[1], pt[2] - bl[2], ps) :
                         bl \in {bl_corner(p, ps)}} : TRUE

-----------------------------------------------------------------------------
(* Areas.  GetArea is the product of width and height as a double, exact    *)
(* for the sizes met here; it is held as three base-AreaBase digits so that *)
(* no intermediate value leaves the 32-bit range of the checker.            *)

AreaBase == 64 * 64

AreaOf(bb) ==
    LET wH == bb.w \div AreaBase
        wL == bb.w % AreaBase
        hH == bb.h \div AreaBase
        hL == bb.h % AreaBase
        c0 == wL * hL
        c1 == wH * hL + wL * hH + (c0 \div AreaBase)
    IN  <<wH * hH + (c1 \div AreaBase), c1 % AreaBase, c0 % AreaBase>>

\* Module.area
area(p, ps) == CHOOSE a \in {AreaOf(bb) : bb \in {bbox(p, ps)}} : TRUE

\* a1 > a2 for areas
AreaGreater(a1, a2) ==
    \/ a1[1] > a2[1]
    \/ a1[1] = a2[1] /\ a1[2] > a2[2]
    \/ a1[1] = a2[1] /\ a1[2] = a2[2] /\ a1[3] > a2[3]

\* p comes before q in the sorted list when its key -area is smaller
Before(p, q, ps) == \E a1 \in {area(p, ps)}, a2 \in {area(q, ps)} : AreaGreater(a1, a2)

\* variant: a sort that is not stable
RECURSIVE InsertUnstable(_, _, _)
InsertUnstable(sorted, p, ps) ==
    IF sorted = <<>> THEN <<p>>
    ELSE IF ~Before(Head(sorted), p, ps)
         THEN <<p>> \o sorted
         ELSE <<Head(sorted)>> \o InsertUnstable(Tail(sorted), p, ps)

\* sorted(group, key=lambda m: -m.area): stable, largest area first
RECURSIVE InsertByArea(_, _, _)
InsertByArea(sorted, p, ps) ==
    IF sorted = <<>> THEN <<p>>
    ELSE IF Before(p, Head(sorted), ps)
         THEN <<p>> \o sorted
         ELSE <<Head(sorted)>> \o InsertByArea(Tail(sorted), p, ps)

RECURSIVE SortedFrom(_, _, _, _)
SortedFrom(ms, k, acc, ps) ==
    IF k > Len(ms) THEN acc
    ELSE CHOOSE r \in {SortedFrom(ms, k + 1, a, ps) :
                         a \in {InsertByArea(acc, ms[k], ps)}} : TRUE

SortedByArea(ms, ps) == SortedFrom(ms, 1, <<>>, ps)

-----------------------------------------------------------------------------
(* group_modules: the dict it returns, as the sequence of its (key, group)  *)
(* entries in insertion order.                                              *)

KeyIndex(gs, key) ==
    IF \E k \in 1..Len(gs) : gs[k].key = key
    THEN CHOOSE k \in 1..Len(gs) : gs[k].key = key
    ELSE 0

\* groups[key].append(m), the group made on first use
AppendAt(gs, at, key, m) ==
    IF at = 0
    THEN Append(gs, [key |-> key, grp |-> ModuleGroup(<<m>>)])
    ELSE [gs EXCEPT ![at].grp = ModuleGroup(Append(@.mem, m))]

\* groups[m.hier_level].append(m)
AppendTo(gs, m) ==
    CHOOSE r \in {AppendAt(gs, KeyIndex(gs, key), key, m) :
                    key \in {hier_level(m)}} : TRUE

RECURSIVE GroupFrom(_, _, _)
GroupFrom(ms, k, gs) ==
    IF k > Len(ms) THEN gs
    ELSE CHOOSE r \in {GroupFrom(ms, k + 1, g) :
                         g \in {IF locked(ms[k]) THEN gs ELSE AppendTo(gs, ms[k])}} : TRUE

\* variant: locked modules are grouped too
RECURSIVE GroupAllFrom(_, _, _)
GroupAllFrom(ms, k, gs) ==
    IF k > Len(ms) THEN gs
    ELSE CHOOSE r \in {GroupAllFrom(ms, k + 1, g) : g \in {AppendTo(gs, ms[k])}} : TRUE

group_modules_locked(ms) == GroupAllFrom(ms, 1, <<>>)

group_modules(ms) == GroupFrom(ms, 1, <<>>)

\* groups.values()
Values(gs) == [k \in 1..Len(gs) |-> gs[k].grp]

-----------------------------------------------------------------------------
(* pack: one pass of its for loop, for member module, the last element of   *)
(* packed.  best = 0 stands for best_pt = None.                             *)

\* variant: only the first packed member is tested
TouchesFirstOnly(module, packed, ps) ==
    Len(packed) > 1 /\ touches(module, packed[1], ps)

\* the inner "for pm in packed_modules" loop: module touches an earlier member
TouchesPacked(module, packed, ps) ==
    \E j \in 1..(Len(packed) - 1) : touches(module, packed[j], ps)

\* h + w + abs(h - w)
SizeOf(bb) == bb.h + bb.w + Abs(bb.h - bb.w)

\* size of the packed group
GroupSize(packed, ps) == CHOOSE z \in {SizeOf(bb) : bb \in {GroupBox(packed, ps)}} : TRUE

\* variant: "if size < smallest_size"
Smaller(size, best, smallest_size) == best = 0 \/ size < smallest_size

\* "if size <= smallest_size", smallest_size being inf while best_pt is None
NotLarger(size, best, smallest_size) == best = 0 \/ size <= smallest_size

\* the loop "for pt in placement_pts": [ps, best] when it ends
RECURSIVE ScanPts(_, _, _, _, _, _, _)

\* with module moved to pts[k]: the test for touching, then the size
ScanAt(module, packed, pts, k, ps, best, smallest_size) ==
    IF TouchesPacked(module, packed, ps)
    THEN ScanPts(module, packed, pts, k + 1, ps, best, smallest_size)
    ELSE CHOOSE r \in {IF NotLarger(size, best, smallest_size)
                       THEN ScanPts(module, packed, pts, k + 1, ps, k, size)
                       ELSE ScanPts(module, packed, pts, k + 1, ps, best, smallest_size) :
                         size \in {GroupSize(packed, ps)}} : TRUE

ScanPts(module, packed, pts, k, ps, best, smallest_size) ==
    IF k > Len(pts) THEN [ps |-> ps, best |-> best]
    ELSE CHOOSE r \in {ScanAt(module, packed, pts, k, q, best, smallest_size) :
                         q \in {set_bl_position(module, pts[k], ps)}} : TRUE

\* "placement_pts.extend([module.tl_corner, module.br_corner])"
Placed(module, pts, ps) ==
    [ps |-> ps, ok |-> TRUE,
     pts |-> pts \o <<tl_corner(module, ps), br_corner(module, ps)>>]

\* "module.set_bl_position(best_pt); placement_pts.remove(best_pt)";
\* set_bl_position(None) raises
PlaceBest(module, pts, r) ==
    IF r.best = 0
    THEN [ps |-> r.ps, ok |-> FALSE, pts |-> pts]
    ELSE CHOOSE o \in {Placed(module, ListRemove(pts, pts[r.best]), q) :
                         q \in {set_bl_position(module, pts[r.best], r.ps)}} : TRUE

\* the body of pack's for loop after packed_modules.append(module):
\* [ps, pts, ok]; ok = FALSE when it raises
PlaceOne(module, packed, pts, ps) ==
    IF pts = <<>>
    THEN Placed(module, pts, ps)
    ELSE CHOOSE o \in {PlaceBest(module, pts, r) :
                         r \in {ScanPts(module, packed, pts, 1, ps, 0, 0)}} : TRUE

\* pack's for loop from element k of the sorted list on: [ps, ok] when pack
\* returns or raises
RECURSIVE PackFrom(_, _, _, _, _)
PackFrom(sorted, k, packed, pts, ps) ==
    IF k > Len(sorted) THEN [ps |-> ps, ok |-> TRUE]
    ELSE IF locked(sorted[k]) THEN PackFrom(sorted, k + 1, packed, pts, ps)
    ELSE CHOOSE o \in {IF r.ok THEN PackFrom(sorted, k + 1, Append(packed, sorted[k]),
                                              r.pts, r.ps)
                       ELSE [ps |-> r.ps, ok |-> FALSE] :
                         r \in {PlaceOne(sorted[k], Append(packed, sorted[k]), pts, ps)}} : TRUE

\* variant: the group is taken to have a first member
pack_nonempty(group, ps) ==
    IF group.mem = <<>> THEN [ps |-> ps, ok |-> FALSE]
    ELSE PackFrom(SortedByArea(group.mem, ps), 1, <<>>, <<>>, ps)

\* pack(group)
pack(group, ps) ==
    CHOOSE o \in {PackFrom(sorted, 1, <<>>, <<>>, ps) :
                    sorted \in {SortedByArea(group.mem, ps)}} : TRUE

-----------------------------------------------------------------------------
(* HierPlace.Run *)

\* modules wrapped as Module objects
AllModules == [i \in 1..Len(modules) |-> Leaf(i)]

RECURSIVE SelectSeq2(_, _)
SelectSeq2(ms, k) ==
    IF k > Len(ms) THEN <<>>
    ELSE (IF modules[ms[k].id].selected THEN <<ms[k]>> ELSE <<>>)
         \o SelectSeq2(ms, k + 1)

\* variant: the selection is ignored
selected_all == AllModules

\* [m for m in modules if m.selected] or modules
selected_modules ==
    LET sel == SelectSeq2(AllModules, 1)
    IN  IF sel # <<>> THEN sel ELSE AllModules

\* Run up to the while loop
RunStart ==
    /\ pc = "start"
    /\ groups' = group_modules(selected_modules)
    /\ gi' = 1
    /\ passes' = 1
    /\ pc' = "loop"
    /\ UNCHANGED <<modules, pos, pos0, order, mi, packed_modules, placement_pts>>

\* "for group in groups.values(): pack(group)": pack is entered
PackCall ==
    /\ pc = "loop"
    /\ gi <= Len(groups)
    /\ order' = SortedByArea(groups[gi].grp.mem, pos)
    /\ mi' = 0
    /\ packed_modules' = <<>>
    /\ placement_pts' = <<>>
    /\ pc' = "pack"
    /\ UNCHANGED <<modules, pos, pos0, groups, gi, passes>>

\* pack's for loop: module is positioned, or set_bl_position(None) raises
PackPlace(packed, r) ==
    /\ packed_modules' = packed
    /\ pos' = r.ps
    /\ placement_pts' = r.pts
    /\ mi' = IF r.ok THEN mi + 1 ELSE mi
    /\ pc' = IF r.ok THEN "pack" ELSE "error"

\* one pass of pack's for loop
PackStep ==
    /\ pc = "pack"
    /\ mi < Len(order)
    /\ IF locked(order[mi + 1])
       THEN /\ mi' = mi + 1
            /\ UNCHANGED <<pos, pc, packed_modules, placement_pts>>
       ELSE \E packed \in {Append(packed_modules, order[mi + 1])} :
               \E r \in {PlaceOne(order[mi + 1], packed, placement_pts, pos)} :
                  PackPlace(packed, r)
    /\ UNCHANGED <<modules, pos0, groups, gi, order, passes>>

\* pack returns
PackReturn ==
    /\ pc = "pack"
    /\ mi = Len(order)
    /\ gi' = gi + 1
    /\ pc' = "loop"
    /\ UNCHANGED <<modules, pos, pos0, groups, order, mi, packed_modules,
                   placement_pts, passes>>

\* variant: "if len(groups) == 1: break"
LoopBreakOne ==
    /\ pc = "loop"
    /\ gi > Len(groups)
    /\ Len(groups) = 1
    /\ pc' = "done"
    /\ UNCHANGED <<modules, pos, pos0, groups, gi, order, mi, packed_modules,
                   placement_pts, passes>>

\* "if len(groups) <= 1: break"
LoopBreak ==
    /\ pc = "loop"
    /\ gi > Len(groups)
    /\ Len(groups) <= 1
    /\ pc' = "done"
    /\ UNCHANGED <<modules, pos, pos0, groups, gi, order, mi, packed_modules,
                   placement_pts, passes>>

\* "groups = group_modules(groups.values())" and the next pass of the while loop
Regroup ==
    /\ pc = "loop"
    /\ gi > Len(groups)
    /\ Len(groups) > 1
    /\ groups' = group_modules(Values(groups))
    /\ gi' = 1
    /\ passes' = passes + 1
    /\ UNCHANGED <<modules, pos, pos0, pc, order, mi, packed_modules, placement_pts>>

Next ==
    \/ RunStart
    \/ PackCall
    \/ PackStep
    \/ PackReturn
    \/ LoopBreak
    \/ Regroup

-----------------------------------------------------------------------------
(* Boards *)

\* GetPath() of the modules met: "", "/u", "/A/u", "/B/u", "/A/C/u"
Paths == { <<"">>, <<"", "u">>, <<"", "A", "u">>, <<"", "B", "u">>,
           <<"", "A", "C", "u">> }

\* footprint sizes: multiples of twice the module spacing, fw + fh bounded
DimStep == 2 * MODULE_SPACING

Shapes == {sh \in (0..MaxDim) \X (0..MaxDim) : sh[1] + sh[2] <= MaxDim}

\* the modules lie along a diagonal of pitch c
Layout(n, c) == [i \in 1..n |-> <<c * i, -(c * i)>>]

ModuleRec(sh, pa, lk, se) ==
    [fw |-> sh[1] * DimStep, fh |-> sh[2] * DimStep, path |-> pa,
     locked |-> lk, selected |-> se]

ModuleRecs(shapes, paths, locks, sels) ==
    {ModuleRec(sh, pa, lk, se) : sh \in shapes, pa \in paths, lk \in locks, se \in sels}

Boards(ns, recs) == UNION {[1..n -> recs] : n \in ns}

InitBoard(boards, pitches) ==
    /\ modules \in boards
    /\ pos \in {Layout(Len(modules), c) : c \in pitches}
    /\ pos0 = pos
    /\ pc = "start"
    /\ groups = <<>>
    /\ gi = 1
    /\ order = <<>>
    /\ mi = 0
    /\ packed_modules = <<>>
    /\ placement_pts = <<>>
    /\ passes = 0

\* any board: locks, selections and hierarchy vary, one footprint size
Init ==
    InitBoard(Boards(0..MaxModules,
                     ModuleRecs({<<MaxDim, 0>>},
                                {<<"", "A", "u">>, <<"", "B", "u">>, <<"", "A", "C", "u">>},
                                BOOLEAN, BOOLEAN)),
              {MaxCoord})

Spec == Init /\ [][Next]_vars

\* boards of unlocked modules of every footprint size; the hierarchy is one
\* sheet, or two sheets taken in turn
PackPath(i, two) == IF two /\ i % 2 = 0 THEN <<"", "B", "u">> ELSE <<"", "A", "u">>

PackBoards ==
    UNION {{[i \in 1..n |-> ModuleRec(shs[i], PackPath(i, two), FALSE, FALSE)] :
               shs \in [1..n -> Shapes], two \in BOOLEAN} : n \in 1..MaxModules}

InitPack == InitBoard(PackBoards, {MaxCoord})

SpecPack == InitPack /\ [][Next]_vars

\* boards where the hierarchy and the locks vary, also the empty board
InitHier ==
    InitBoard(Boards(0..MaxModules, ModuleRecs({<<0, 0>>}, Paths, BOOLEAN, {FALSE})),
              {MaxCoord})

\* Run is one sequential call: it keeps running until it returns or raises
FairHier == InitHier /\ [][Next]_vars /\ WF_vars(Next)

-----------------------------------------------------------------------------
(* Properties *)

\* the bounding box of p shrunk by epsilon = 1 on each side
Shrunk(p) == Inflate(bbox(p, pos), -1)

\* no two distinct unlocked members of cluster g overlap
NonOverlap(g) ==
    \A i, j \in 1..Len(g.mem) :
        (i # j /\ ~locked(g.mem[i]) /\ ~locked(g.mem[j]))
            => ~Intersects(Shrunk(g.mem[i]), Shrunk(g.mem[j]))

\* the clusters for which pack has returned in the current pass
PackedGroups ==
    IF pc \in {"loop", "done"} THEN {groups[k].grp : k \in 1..Min2(gi - 1, Len(groups))}
    ELSE IF pc \in {"pack", "error"} THEN {groups[k].grp : k \in 1..(gi - 1)}
    ELSE {}

\* C1: after pack(cluster) returns, no two distinct unlocked members of the
\* cluster have bounding boxes that intersect once each is shrunk by 1 on every
\* side, at every pass, for leaf members and for nested clusters.
C1_NonOverlap == \A g \in PackedGroups : NonOverlap(g)

\* a second pass has packed a cluster of two nested clusters, one of two modules
C1_Witness ==
    /\ pc = "done"
    /\ passes = 2
    /\ \E g \in PackedGroups :
          /\ Len(g.mem) = 2
          /\ \E k \in 1..2 : ~g.mem[k].leaf /\ Len(g.mem[k].mem) = 2

\* the modules Run works on, and those of them that can be placed
Arranged ==
    IF \E i \in 1..Len(modules) : modules[i].selected
    THEN {i \in 1..Len(modules) : modules[i].selected}
    ELSE 1..Len(modules)

UnlockedArranged == {i \in Arranged : ~modules[i].locked}

\* the modules inside the clusters of the current grouping
Clustered == UNION {Leaves(groups[k].grp) : k \in 1..Len(groups)}

Moved == {i \in 1..Len(modules) : pos[i] # pos0[i]}

\* C2: a locked module keeps the position it had when Run was entered and is
\* never a member of any cluster, at any pass.
C2_LockInvariance ==
    \A i \in 1..Len(modules) :
        modules[i].locked =>
            /\ pos[i] = pos0[i]
            /\ i \notin Clustered
            /\ \A k \in 1..Len(order) : i \notin Leaves(order[k])
            /\ \A k \in 1..Len(packed_modules) : i \notin Leaves(packed_modules[k])

\* Run has ended, a locked module was among the modules worked on, and
\* another module of its hierarchy level was moved
C2_Witness ==
    /\ pc = "done"
    /\ \E i \in Arranged, j \in Moved :
          /\ modules[i].locked
          /\ modules[j].path = modules[i].path

\* C5: Run works on exactly the selected modules when there is one, on all
\* modules otherwise; when a module is selected, no unselected module moves.
C5_SelectionScope ==
    /\ pc # "start" => Clustered = UnlockedArranged
    /\ (\E i \in 1..Len(modules) : modules[i].selected)
           => \A j \in 1..Len(modules) : ~modules[j].selected => pos[j] = pos0[j]

\* Run has ended, a selected module was moved and an unlocked module was not
\* selected
C5_Witness ==
    /\ pc = "done"
    /\ \E i \in Moved : modules[i].selected
    /\ \E j \in 1..Len(modules) : ~modules[j].selected /\ ~modules[j].locked

\* C6: nothing to place is no error: group_modules of an empty sequence, or of
\* locked modules only, is empty; pack of an empty cluster returns with the
\* positions as they were; and Run on such input moves nothing, raises nothing
\* and leaves its loop at the first test.
C6_EmptyInput ==
    /\ group_modules(<<>>) = <<>>
    /\ pack(ModuleGroup(<<>>), pos) = [ps |-> pos, ok |-> TRUE]
    /\ UnlockedArranged = {} =>
          /\ group_modules(selected_modules) = <<>>
          /\ pos = pos0
          /\ pc \in {"start", "loop", "done"}
          /\ pc # "start" => groups = <<>> /\ passes = 1
          /\ pc = "loop" => ENABLED LoopBreak

\* Run has ended on a board whose modules are all locked
C6_Witness ==
    /\ pc = "done"
    /\ modules # <<>>
    /\ UnlockedArranged = {}
    /\ groups = <<>>

\* C3: the loop of Run reaches its stop condition, and the grouping then holds
\* at most one cluster, which holds every unlocked module Run worked on.
C3_Convergence ==
    /\ <>(pc = "done")
    /\ [](pc = "done" =>
            /\ Len(groups) <= 1
            /\ Clustered = UnlockedArranged
            /\ Len(groups) = 0 => UnlockedArranged = {})

\* the loop has stopped after three passes with three modules in the last cluster
C3_Witness ==
    /\ pc = "done"
    /\ passes = 3
    /\ Len(groups) = 1
    /\ Cardinality(Leaves(groups[1].grp)) = 3

\* number of '/'-separated segments of the hierarchy key of module i
KeySegments(i) == Max2(1, Len(modules[i].path) - 1)

\* the largest such number over the modules Run works on; 0 when there is none
HierDepth ==
    IF Arranged = {} THEN 0
    ELSE CHOOSE d \in {KeySegments(i) : i \in Arranged} :
             \A i \in Arranged : KeySegments(i) <= d

\* C4 as stated: when the loop has stopped, its body has been executed at most
\* depth(hierarchy) times.
C4_Original == pc = "done" => passes <= HierDepth

\* C4: the loop body is executed at most max(1, depth(hierarchy)) times.
C4_IterationBound == passes <= Max2(1, HierDepth)

\* the loop has stopped after as many passes as the hierarchy is deep, more than one
C4_Witness ==
    /\ pc = "done"
    /\ passes = HierDepth
    /\ passes = 3

-----------------------------------------------------------------------------
(* The choice pack makes, stated from the positions before the step *)

\* the positions with placeable m translated so that its bottom-left corner is at pt
Translated(m, pt) ==
    LET bl == bl_corner(m, pos)
    IN  [i \in 1..Len(modules) |->
            IF i \in Leaves(m)
            THEN <<pos[i][1] + pt[1] - bl[1], pos[i][2] + pt[2] - bl[2]>>
            ELSE pos[i]]

\* m at anchor pt fails the overlap test against the members packed
RejectedAt(packed, m, pt) ==
    \E j \in 1..Len(packed) :
        Intersects(Inflate(bbox(m, Translated(m, pt)), -1),
                   bbox(packed[j], Translated(m, pt)))

\* the footprint score H + W + |H - W| of packed with m at anchor pt
ScoreAt(packed, m, pt) ==
    LET bb == bbox(ModuleGroup(Append(packed, m)), Translated(m, pt))
    IN  bb.h + bb.w + Abs(bb.h - bb.w)

\* the indices of the anchors that survive the overlap test for m
Surviving(packed, m, pts) == {k \in 1..Len(pts) : ~RejectedAt(packed, m, pts[k])}

\* the surviving anchor of least score, the latest one on a tie
Winner(packed, m, pts) ==
    CHOOSE k \in Surviving(packed, m, pts) :
        \A j \in Surviving(packed, m, pts) :
            \/ ScoreAt(packed, m, pts[j]) > ScoreAt(packed, m, pts[k])
            \/ ScoreAt(packed, m, pts[j]) = ScoreAt(packed, m, pts[k]) /\ j <= k

RemoveAt(seq, k) == SubSeq(seq, 1, k - 1) \o SubSeq(seq, k + 1, Len(seq))

\* a member after the first is being placed by this step, and pack goes on
PlacingLater ==
    /\ pc = "pack"
    /\ mi < Len(order)
    /\ placement_pts # <<>>
    /\ pc' = "pack"

\* C7: a member after the first ends with its bottom-left corner on an anchor
\* of the anchor set, one of least score H + W + |H - W| among the anchors that
\* pass the overlap test, the latest of them on a tie; one entry holding that
\* anchor point leaves the set, the others keep their order, and the member's
\* top-left and bottom-right corners are appended.
C7_AnchorRule ==
    [][PlacingLater =>
          LET m   == order[mi + 1]
              win == Winner(packed_modules, m, placement_pts)
          IN  /\ Surviving(packed_modules, m, placement_pts) # {}
              /\ pos' = Translated(m, placement_pts[win])
              /\ bl_corner(m, pos') = placement_pts[win]
              /\ \E k \in 1..Len(placement_pts) :
                    /\ placement_pts[k] = placement_pts[win]
                    /\ placement_pts' = RemoveAt(placement_pts, k)
                                          \o <<tl_corner(m, pos'), br_corner(m, pos')>>
              /\ packed_modules' = Append(packed_modules, m)]_vars

\* the second member was placed on the later of the two anchors of the first,
\* which tied on score, and a third one has been placed after it
C7_Witness ==
    /\ pc = "pack"
    /\ mi = 3
    /\ Len(placement_pts) = 4
    /\ LET first == order[1]
           a1    == tl_corner(first, pos)
           a2    == br_corner(first, pos)
       IN  /\ bl_corner(order[2], pos) = a2
           /\ ScoreAt(<<first>>, order[2], a1) = ScoreAt(<<first>>, order[2], a2)
           /\ ~RejectedAt(<<first>>, order[2], a1)
           /\ a2 \notin Range(placement_pts)

\* the place of member p in the cluster being packed
IndexIn(ms, p) == CHOOSE k \in 1..Len(ms) : ms[k] = p

\* order holds the members of the cluster by descending area, ties in the
\* order of the cluster
SortedStable(ms) ==
    /\ Len(order) = Len(ms)
    /\ Range(order) = Range(ms)
    /\ \A i, j \in 1..Len(order) :
          i < j =>
              /\ ~AreaGreater(area(order[j], pos), area(order[i], pos))
              /\ area(order[i], pos) = area(order[j], pos)
                     => IndexIn(ms, order[i]) < IndexIn(ms, order[j])

\* C8: pack takes the members by descending area, ties in insertion order;
\* the first of them is not moved by pack, and a step of pack moves nothing but
\* the member it is placing.
C8_LargestFirst ==
    /\ [](pc = "pack" => SortedStable(groups[gi].grp.mem))
    /\ [][pc = "pack" =>
             \A i \in 1..Len(modules) :
                 \/ pos'[i] = pos[i]
                 \/ mi >= 1 /\ mi < Len(order) /\ i \in Leaves(order[mi + 1])]_vars

\* three members of which the last two tie on area have been placed, the
\* sorted order differs from the order of the cluster and a module has moved
C8_Witness ==
    /\ pc = "pack"
    /\ mi = 3
    /\ order # groups[gi].grp.mem
    /\ area(order[2], pos) = area(order[3], pos)
    /\ Moved # {}

\* the packed members whose top edge is highest
Topmost(packed) ==
    {j \in 1..Len(packed) :
        \A k \in 1..Len(packed) : bbox(packed[j], pos).y <= bbox(packed[k], pos).y}

\* C9: pack never finds every anchor rejected: while a member after the first
\* waits to be placed, the top-left corner of each topmost packed member is in
\* the anchor set and passes the overlap test, and best_pt is never None.
C9_NoDegenerate ==
    /\ pc # "error"
    /\ (pc = "pack" /\ mi < Len(order) /\ placement_pts # <<>>) =>
          /\ \A k \in 1..Len(order) :
                bbox(order[k], pos).w >= 2 /\ bbox(order[k], pos).h >= 2
          /\ \A j \in Topmost(packed_modules) :
                /\ tl_corner(packed_modules[j], pos) \in Range(placement_pts)
                /\ ~RejectedAt(packed_modules, order[mi + 1],
                               tl_corner(packed_modules[j], pos))
          /\ Surviving(packed_modules, order[mi + 1], placement_pts) # {}

\* a third member waits to be placed and one of the four anchors is rejected
C9_Witness ==
    /\ pc = "pack"
    /\ mi = 2
    /\ Len(order) = 3
    /\ Cardinality(Surviving(packed_modules, order[3], placement_pts)) < 4

\* the clusters at and beneath placeable p
RECURSIVE Clusters(_)
Clusters(p) ==
    IF p.leaf THEN {}
    ELSE {p} \cup UNION {Clusters(p.mem[k]) : k \in 1..Len(p.mem)}

\* rectangle a lies inside rectangle b
Inside(a, b) ==
    /\ b.x <= a.x
    /\ b.y <= a.y
    /\ a.x + a.w <= b.x + b.w
    /\ a.y + a.h <= b.y + b.h

\* the bounding box of every cluster holds the boxes of its members
BoxesNested ==
    \A k \in 1..Len(groups) :
        \A g \in Clusters(groups[k].grp) :
            \A j \in 1..Len(g.mem) : Inside(bbox(g.mem[j], pos), bbox(g, pos))

\* a step translates all the modules beneath a member by one vector
RigidStep ==
    \A k \in 1..Len(order) :
        \A i, j \in Leaves(order[k]) :
            /\ pos'[i][1] - pos[i][1] = pos'[j][1] - pos[j][1]
            /\ pos'[i][2] - pos[i][2] = pos'[j][2] - pos[j][2]

\* C10: when Run has ended, no two distinct unlocked modules it worked on
\* have bounding boxes that intersect once each is shrunk by 1 on every side;
\* the bounding box of a cluster holds its members' boxes, and moving a cluster
\* translates every module beneath it by the same vector.
C10_BoardNonOverlap ==
    /\ [](pc = "done" =>
             \A i, j \in UnlockedArranged :
                 i # j => ~Intersects(Shrunk(Leaf(i)), Shrunk(Leaf(j))))
    /\ []BoxesNested
    /\ [][RigidStep]_vars

\* Run has ended after two passes on three modules; the second pass moved
\* the cluster of two of them next to the cluster of the third
C10_Witness ==
    /\ pc = "done"
    /\ passes = 2
    /\ Cardinality(UnlockedArranged) = 3
    /\ Len(order) = 2
    /\ Len(order[2].mem) = 2
    /\ Leaves(order[2]) \subseteq Moved

====
